---- MODULE Spec2Model ----
(***************************************************************************)
(* Model of the azurerm_resource_missing_tags rule                         *)
(* (rules/azurerm_resource_missing_tags.go): Check walks the resource      *)
(* types and their blocks, emitIssue resolves the tags value of one block  *)
(* and evaluateMissingTags walks the (nested) tags object.                 *)
(*                                                                         *)
(* The recursion of evaluateMissingTags is kept as an explicit stack of    *)
(* frames; every "for ... range map" picks its next entry freely, since Go *)
(* leaves map iteration order unspecified.                                 *)
(***************************************************************************)
EXTENDS Integers, Sequences, FiniteSets, TLC

\* ---------------------------------------------------------------- bounds
\* Largest number of entries (at all depths together) of the tags object one
\* resolution is followed on.
MaxNodes == 3
\* The same for the tags object of a block inside a whole Check invocation.
MaxBlockNodes == 1
\* Largest number of resource blocks one Check invocation walks.
MaxResources == 2
\* Largest length of the configured tags list.
MaxTags == 2

\* ------------------------------------------------------------ input sets
\* Names the configuration may require.
RequiredNames == {"Foo", "Bar"}
\* Keys an entry of a tags object may have, in their sort order: the two
\* names above and a key that differs from "Foo" only by case.
KeyNames == <<"Bar", "Foo", "foo">>
\* cty types of an entry, as evaluateMissingTags tells them apart.
Kinds == {"primitive", "object", "other"}
\* Resource types of the ruleset (the Resources list).
Resources == <<"azurerm_resource_group", "azurerm_virtual_network">>
\* Values of the optional exclude list.
ExcludeLists == {<<>>, <<"azurerm_virtual_network">>}

VARIABLES pc, config, ti, nres, cur, stack, missing, tagsAlreadyIncluded,
          issues, ret

vars == <<pc, config, ti, nres, cur, stack, missing, tagsAlreadyIncluded,
          issues, ret>>

\* ------------------------------------------------------------- helpers
Range(s) == {s[i] : i \in 1..Len(s)}

KeyIdx(k) == CHOOSE i \in 1..Len(KeyNames) : KeyNames[i] = k

RECURSIVE SeqsUpTo(_, _)
SeqsUpTo(S, n) ==
    IF n = 0 THEN {<<>>}
    ELSE LET shorter == SeqsUpTo(S, n - 1)
         IN  shorter \cup {Append(s, x) : s \in {t \in shorter : Len(t) = n - 1}, x \in S}

\* config.Tags as the configuration may give it (duplicates are not rejected).
TagLists == SeqsUpTo(RequiredNames, MaxTags)

\* strings.Join
RECURSIVE Join(_, _)
Join(elems, sep) ==
    IF Len(elems) = 0 THEN ""
    ELSE IF Len(elems) = 1 THEN elems[1]
    ELSE elems[1] \o sep \o Join(Tail(elems), sep)

\* fmt.Sprintf("The resource is missing the following tags: %s.", wantedString)
IssueMessage(wantedString) ==
    "The resource is missing the following tags: " \o wantedString \o "."

\* stringInSlice
stringInSlice(a, list) == \E i \in 1..Len(list) : list[i] = a

\* ------------------------------------------------------------ tags trees
\* A tags object is a sequence of entries; entry i is an entry of the object
\* that is entry t[i].parent (0: the tags attribute's own object).  Entries are
\* numbered breadth first with the keys of one object ascending, which gives
\* every object exactly one representation.
NodeOk(t, nd) ==
    /\ nd.parent <= Len(t)
    /\ nd.parent > 0 => t[nd.parent].kind = "object"
    /\ Len(t) > 0 =>
          LET last == t[Len(t)]
          IN  \/ last.parent < nd.parent
              \/ last.parent = nd.parent /\ KeyIdx(last.key) < KeyIdx(nd.key)

RECURSIVE TreesOfSize(_)
TreesOfSize(n) ==
    IF n = 0 THEN {<<>>}
    ELSE UNION {{Append(t, nd) :
                    nd \in {x \in [parent : 0..(n - 1), key : Range(KeyNames), kind : Kinds] :
                               NodeOk(t, x)}} :
                t \in TreesOfSize(n - 1)}

TreesUpTo(m) == UNION {TreesOfSize(n) : n \in 0..m}

\* value.AsValueMap() of the object that is entry p: its entries.
Children(t, p) == {i \in 1..Len(t) : t[i].parent = p}
\* the keys of that map
MapKeys(t, p) == {t[i].key : i \in Children(t, p)}

NoResource == [attr |-> "none", evalFailed |-> FALSE, val |-> "null", tree |-> <<>>]

\* ------------------------------------------------- evaluateMissingTags
\* One frame per active call: the object it walks (node), the position of the
\* outer loop over config.Tags (ri) and the entries the inner range has not
\* yielded yet (rem).
Frame(t, p) == [node |-> p, ri |-> 1, rem |-> Children(t, p)]

\* Runs the loop heads that need no entry: an exhausted inner range moves the
\* outer loop to the next required tag, an exhausted outer loop returns to the
\* caller's inner range.
RECURSIVE Advance(_, _, _)
Advance(stk, t, tags) ==
    IF stk = <<>> THEN stk
    ELSE LET n   == Len(stk)
             top == stk[n]
         IN  IF top.ri > Len(tags) THEN Advance(SubSeq(stk, 1, n - 1), t, tags)
             ELSE IF top.rem = {}
                  THEN Advance([stk EXCEPT ![n] = [top EXCEPT !.ri = top.ri + 1,
                                                              !.rem = Children(t, top.node)]],
                               t, tags)
                  ELSE stk

\* PrimitiveEntry with the delete(missing, tagName) of a match left out.
PrimitiveEntryNoDelete(miss, incl, mapKeys, tagName, requiredTag) ==
    IF tagName = requiredTag
    THEN [missing |-> miss, included |-> incl \cup {tagName}]
    ELSE IF requiredTag \notin mapKeys /\ requiredTag \notin incl
         THEN [missing |-> miss \cup {requiredTag}, included |-> incl]
         ELSE [missing |-> miss, included |-> incl]

\* PrimitiveEntry with a match not recorded in tagsAlreadyIncluded.
PrimitiveEntryNoRecord(miss, incl, mapKeys, tagName, requiredTag) ==
    IF tagName = requiredTag
    THEN [missing |-> miss \ {tagName}, included |-> incl]
    ELSE IF requiredTag \notin mapKeys /\ requiredTag \notin incl
         THEN [missing |-> miss \cup {requiredTag}, included |-> incl]
         ELSE [missing |-> miss, included |-> incl]

\* PrimitiveEntry without the look at tagsAlreadyIncluded before a name is
\* put into missing.
PrimitiveEntryNoLayerCheck(miss, incl, mapKeys, tagName, requiredTag) ==
    IF tagName = requiredTag
    THEN [missing |-> miss \ {tagName}, included |-> incl \cup {tagName}]
    ELSE IF requiredTag \notin mapKeys
         THEN [missing |-> miss \cup {requiredTag}, included |-> incl]
         ELSE [missing |-> miss, included |-> incl]

\* The primitive branch of the inner loop body for one entry tagName of the
\* map with keys mapKeys, under the current requiredTag.
PrimitiveEntry(miss, incl, mapKeys, tagName, requiredTag) ==
    IF tagName = requiredTag
    THEN [missing |-> miss \ {tagName}, included |-> incl \cup {tagName}]
    ELSE LET tagNameIncludedAtThisLayer == requiredTag \in mapKeys
             tagNameIncludedAtDifferentLayer == requiredTag \in incl
         IN  IF ~tagNameIncludedAtThisLayer /\ ~tagNameIncludedAtDifferentLayer
             THEN [missing |-> miss \cup {requiredTag}, included |-> incl]
             ELSE [missing |-> miss, included |-> incl]

\* The orders in which "for tag := range missing" may fill wanted.
WantedOrders(miss) ==
    {w \in [1..Cardinality(miss) -> miss] : \A i, j \in 1..Cardinality(miss) : w[i] = w[j] => i = j}

\* runner.EmitIssue(r, issue, location)
Issue(res, at, wanted) == [res |-> res, at |-> at, message |-> IssueMessage(Join(wanted, ", "))]

\* NullTagsIssues naming only the first configured tag.
NullTagsIssuesFirstOnly(res, at, tags) ==
    IF Len(tags) > 1 THEN <<Issue(res, at, <<tags[1]>>)>> ELSE <<Issue(res, at, tags)>>

\* The issues emitIssue reports for a null tags value.
NullTagsIssues(res, at, tags) == <<Issue(res, at, tags)>>

\* MissingIssues with one issue per missing tag.
MissingIssuesPerTag(res, at, wanted) ==
    [i \in 1..Len(wanted) |-> Issue(res, at, <<wanted[i]>>)]

\* The issues emitIssue reports after evaluateMissingTags, wanted being the
\* missing names in the order the range over the map yielded them.
MissingIssues(res, at, wanted) ==
    IF Len(wanted) > 0 THEN <<Issue(res, at, wanted)>> ELSE <<>>

\* ----------------------------------------------------------------- Init
Init ==
    /\ pc = "decode"
    /\ config = [Tags |-> <<>>, Exclude |-> <<>>]
    /\ ti = 1
    /\ nres = 0
    /\ cur = NoResource
    /\ stack = <<>>
    /\ missing = {}
    /\ tagsAlreadyIncluded = {}
    /\ issues = <<>>
    /\ ret = "running"

\* ---------------------------------------------------------------- Check
\* runner.DecodeRuleConfig succeeds.
DecodeRuleConfig ==
    /\ pc = "decode"
    /\ \E tags \in TagLists, excl \in ExcludeLists :
          config' = [Tags |-> tags, Exclude |-> excl]
    /\ pc' = "types"
    /\ UNCHANGED <<ti, nres, cur, stack, missing, tagsAlreadyIncluded, issues, ret>>

\* runner.DecodeRuleConfig fails: Check returns the error.
DecodeRuleConfigFails ==
    /\ pc = "decode"
    /\ pc' = "returned"
    /\ ret' = "error"
    /\ UNCHANGED <<config, ti, nres, cur, stack, missing, tagsAlreadyIncluded, issues>>

\* The loop over Resources is exhausted: return nil.
CheckReturns ==
    /\ pc = "types"
    /\ ti > Len(Resources)
    /\ pc' = "returned"
    /\ ret' = "nil"
    /\ UNCHANGED <<config, ti, nres, cur, stack, missing, tagsAlreadyIncluded, issues>>

\* The resource type is excluded in the configuration: continue.
SkipExcluded ==
    /\ pc = "types"
    /\ ti <= Len(Resources)
    /\ stringInSlice(Resources[ti], config.Exclude)
    /\ ti' = ti + 1
    /\ UNCHANGED <<pc, config, nres, cur, stack, missing, tagsAlreadyIncluded, issues, ret>>

\* runner.GetResourceContent succeeds.
GetResourceContent ==
    /\ pc = "types"
    /\ ti <= Len(Resources)
    /\ ~stringInSlice(Resources[ti], config.Exclude)
    /\ pc' = "blocks"
    /\ UNCHANGED <<config, ti, nres, cur, stack, missing, tagsAlreadyIncluded, issues, ret>>

\* runner.GetResourceContent fails: Check returns the error.
GetResourceContentFails ==
    /\ pc = "types"
    /\ ti <= Len(Resources)
    /\ ~stringInSlice(Resources[ti], config.Exclude)
    /\ pc' = "returned"
    /\ ret' = "error"
    /\ UNCHANGED <<config, ti, nres, cur, stack, missing, tagsAlreadyIncluded, issues>>

\* resources.Blocks is exhausted: next resource type.
NoMoreBlocks ==
    /\ pc = "blocks"
    /\ pc' = "types"
    /\ ti' = ti + 1
    /\ cur' = NoResource
    /\ missing' = {}
    /\ tagsAlreadyIncluded' = {}
    /\ UNCHANGED <<config, nres, stack, issues, ret>>

\* A block without a tags attribute: emitIssue(runner, cty.NilVal, config,
\* resource.DefRange).
BlockWithoutTags ==
    /\ pc = "blocks"
    /\ nres < MaxResources
    /\ nres' = nres + 1
    /\ cur' = [attr |-> "absent", evalFailed |-> FALSE, val |-> "null", tree |-> <<>>]
    /\ missing' = {}
    /\ tagsAlreadyIncluded' = {}
    /\ issues' = issues \o NullTagsIssues(nres', "block", config.Tags)
    /\ UNCHANGED <<pc, config, ti, stack, ret>>

\* The values the tags attribute of a block may hold when emitIssue is
\* called.  A failed runner.EvaluateExpr leaves what attribute.Expr.Value gave
\* under an empty context, which may be unknown.
AttributeValues(evalFailed) ==
    {[val |-> "null", tree |-> <<>>]}
      \cup {[val |-> "object", tree |-> t] : t \in TreesUpTo(MaxBlockNodes)}
      \cup (IF evalFailed THEN {[val |-> "unknown", tree |-> <<>>]} ELSE {})

\* A block with a tags attribute.  The error of runner.EvaluateExpr is
\* dropped and EnsureNoError is handed the nil err of GetResourceContent, so
\* emitIssue is called whether or not the evaluation failed.
BlockWithTags ==
    /\ pc = "blocks"
    /\ nres < MaxResources
    /\ \E evalFailed \in BOOLEAN :
        \E v \in AttributeValues(evalFailed) :
          /\ nres' = nres + 1
          /\ cur' = [attr |-> "present", evalFailed |-> evalFailed, val |-> v.val, tree |-> v.tree]
          /\ missing' = {}
          /\ tagsAlreadyIncluded' = {}
          /\ CASE v.val = "null" ->
                    /\ issues' = issues \o NullTagsIssues(nres', "attribute", config.Tags)
                    /\ UNCHANGED <<pc, stack>>
               [] v.val = "unknown" ->
                    \* tags.AsValueMap() panics on an unknown value
                    /\ pc' = "panicked"
                    /\ UNCHANGED <<issues, stack>>
               [] OTHER ->
                    /\ pc' = "eval"
                    /\ stack' = Advance(<<Frame(v.tree, 0)>>, v.tree, config.Tags)
                    /\ UNCHANGED issues
    /\ UNCHANGED <<config, ti, ret>>

\* One iteration of the inner loop of the innermost active call of
\* evaluateMissingTags.
EvalStep ==
    /\ pc = "eval"
    /\ stack # <<>>
    /\ LET n   == Len(stack)
           top == stack[n]
           t   == cur.tree
           requiredTag == config.Tags[top.ri]
       IN  \E e \in top.rem :
             LET rest == [stack EXCEPT ![n] = [top EXCEPT !.rem = top.rem \ {e}]]
             IN  CASE t[e].kind = "object" ->
                        \* recursive call on attributeValue.AsValueMap(); maps.Copy
                        \* copies missing onto itself
                        /\ stack' = Advance(Append(rest, Frame(t, e)), t, config.Tags)
                        /\ UNCHANGED <<missing, tagsAlreadyIncluded>>
                   [] t[e].kind = "primitive" ->
                        LET r == PrimitiveEntry(missing, tagsAlreadyIncluded,
                                                MapKeys(t, top.node), t[e].key, requiredTag)
                        IN  /\ missing' = r.missing
                            /\ tagsAlreadyIncluded' = r.included
                            /\ stack' = Advance(rest, t, config.Tags)
                   [] OTHER ->
                        /\ stack' = Advance(rest, t, config.Tags)
                        /\ UNCHANGED <<missing, tagsAlreadyIncluded>>
    /\ UNCHANGED <<pc, config, ti, nres, cur, issues, ret>>

\* evaluateMissingTags has returned to emitIssue, which reports.
EmitIssue ==
    /\ pc = "eval"
    /\ stack = <<>>
    /\ \E wanted \in WantedOrders(missing) :
          issues' = issues \o MissingIssues(nres, "attribute", wanted)
    /\ pc' = "blocks"
    /\ UNCHANGED <<config, ti, nres, cur, stack, missing, tagsAlreadyIncluded, ret>>

Next ==
    \/ DecodeRuleConfig
    \/ DecodeRuleConfigFails
    \/ CheckReturns
    \/ SkipExcluded
    \/ GetResourceContent
    \/ GetResourceContentFails
    \/ NoMoreBlocks
    \/ BlockWithoutTags
    \/ BlockWithTags
    \/ EvalStep
    \/ EmitIssue

Spec == Init /\ [][Next]_vars

\* ------------------------------------------------------ one resolution
\* emitIssue has been called for the first block with an evaluated tags
\* object and has entered evaluateMissingTags with two fresh maps.
InitResolve ==
    /\ pc = "eval"
    /\ \E tags \in TagLists, t \in TreesUpTo(MaxNodes) :
          /\ config = [Tags |-> tags, Exclude |-> <<>>]
          /\ cur = [attr |-> "present", evalFailed |-> FALSE, val |-> "object", tree |-> t]
          /\ stack = Advance(<<Frame(t, 0)>>, t, tags)
    /\ ti = 1
    /\ nres = 1
    /\ missing = {}
    /\ tagsAlreadyIncluded = {}
    /\ issues = <<>>
    /\ ret = "running"

NextResolve ==
    \/ EvalStep
    \/ EmitIssue

SpecResolve == InitResolve /\ [][NextResolve]_vars

\* =============================================================== claims
\* Keys of the primitive-valued entries (leaves) of a tags object, at any depth.
LeafKeys(t) == {t[i].key : i \in {j \in 1..Len(t) : t[j].kind = "primitive"}}
\* Keys of its object-valued entries (nested groupings).
GroupingKeys(t) == {t[i].key : i \in {j \in 1..Len(t) : t[j].kind = "object"}}
\* The objects of a tags object: the root (0) and every object-valued entry.
Objects(t) == {0} \cup {i \in 1..Len(t) : t[i].kind = "object"}
\* The required names.
Required == Range(config.Tags)
\* The current block has an evaluated tags object.
HasObject == cur.attr = "present" /\ cur.val = "object"
\* evaluateMissingTags has returned for the current block: missing is final.
ResolveDone == HasObject /\ stack = <<>> /\ pc \in {"eval", "blocks"}
\* emitIssue has returned for the current block.
BlockDone == pc = "blocks" /\ cur.attr # "none"
\* The issues reported for resource block r.
IssuesOf(r) == SelectSeq(issues, LAMBDA i : i.res = r)
\* The messages that name exactly the names of the set S, in some order.
MessagesNaming(S) == {IssueMessage(Join(w, ", ")) : w \in WantedOrders(S)}
\* The names of S in the order of the configured tags list, each once.
RECURSIVE InConfigOrder(_, _)
InConfigOrder(tags, S) ==
    IF tags = <<>> THEN <<>>
    ELSE IF tags[1] \in S THEN <<tags[1]>> \o InConfigOrder(Tail(tags), S \ {tags[1]})
    ELSE InConfigOrder(Tail(tags), S)

\* C1: once evaluateMissingTags has returned for a tags object, a required
\* name is in the missing set if and only if no leaf at any depth has it as
\* its key.
C1_MissingIffNoLeaf ==
    ResolveDone => missing = {n \in Required : n \notin LeafKeys(cur.tree)}

\* C2: whatever the iteration orders were, a required name that is the key of
\* a leaf anywhere in the tags object is not in the final missing set, and
\* when every required name is a leaf key no issue is emitted for the block.
C2_LeafAnywhereSatisfies ==
    /\ ResolveDone => missing \cap LeafKeys(cur.tree) = {}
    /\ (BlockDone /\ HasObject /\ Required \subseteq LeafKeys(cur.tree))
          => IssuesOf(nres) = <<>>

\* C2 witness: emitIssue has returned without an issue for an object whose
\* required names are all leaves, one of them only inside a nested object that
\* sits beside a leaf of the root with another key.
C2_Witness ==
    /\ BlockDone /\ HasObject
    /\ Required # {}
    /\ Required \subseteq LeafKeys(cur.tree)
    /\ IssuesOf(nres) = <<>>
    /\ \E i, j \in 1..Len(cur.tree) :
          /\ cur.tree[i].kind = "primitive" /\ cur.tree[i].parent > 0
          /\ cur.tree[i].key \in Required
          /\ cur.tree[i].key \notin MapKeys(cur.tree, 0)
          /\ cur.tree[j].kind = "primitive" /\ cur.tree[j].parent = 0

\* C3: for a non-empty tags list, a block whose tags object has no entries
\* gets the whole list as missing set and an issue naming every name of it.
C3_EmptyObjectReportsAll ==
    (BlockDone /\ HasObject /\ cur.tree = <<>> /\ config.Tags # <<>>)
      => /\ missing = Required
         /\ Len(IssuesOf(nres)) = 1
         /\ IssuesOf(nres)[1].message \in MessagesNaming(Required)

\* C4: a block without a tags attribute gets exactly one issue, at the block,
\* whose message joins the configured tags list (for ["Foo", "Bar"] the
\* message of the tests).
C4_AbsentTagsReportsAll ==
    (BlockDone /\ cur.attr = "absent")
      => /\ Len(IssuesOf(nres)) = 1
         /\ IssuesOf(nres)[1].at = "block"
         /\ IssuesOf(nres)[1].message = IssueMessage(Join(config.Tags, ", "))
         /\ config.Tags = <<"Foo", "Bar">>
              => IssuesOf(nres)[1].message
                   = "The resource is missing the following tags: Foo, Bar."

\* C4 witness: the second block of an invocation has no tags attribute, two
\* different names are required and its issue is reported.
C4_Witness ==
    /\ BlockDone /\ cur.attr = "absent"
    /\ nres = 2
    /\ Cardinality(Required) = 2
    /\ Len(IssuesOf(2)) = 1

\* C5: once the evaluation of a block's tags attribute has failed, Check has
\* returned the error (and has not gone on to emitIssue for that block).
C5_EvalErrorIsFatal ==
    (cur.attr = "present" /\ cur.evalFailed) => (pc = "returned" /\ ret = "error")

\* C6: no block ever has more than one issue; when emitIssue has returned for
\* a block with a tags object, the block has exactly one issue naming all
\* names of its missing set if that set is non-empty, and none if it is empty;
\* a block whose tags are absent or null, for which a non-empty tags list is
\* missing as a whole, has exactly one issue joining that list.
C6_OneIssuePerResource ==
    /\ \A r \in 1..nres : Len(IssuesOf(r)) <= 1
    /\ (BlockDone /\ cur.val = "null" /\ config.Tags # <<>>)
          => /\ Len(IssuesOf(nres)) = 1
             /\ IssuesOf(nres)[1].message = IssueMessage(Join(config.Tags, ", "))
    /\ (BlockDone /\ HasObject /\ missing # {})
          => /\ Len(IssuesOf(nres)) = 1
             /\ IssuesOf(nres)[1].message \in MessagesNaming(missing)
    /\ (BlockDone /\ HasObject /\ missing = {}) => IssuesOf(nres) = <<>>

\* C6 witness: two blocks are done, the first has one issue and the second,
\* with two missing names, has one issue too.
C6_Witness ==
    /\ BlockDone /\ HasObject
    /\ nres = 2
    /\ Cardinality(missing) = 2
    /\ Len(IssuesOf(1)) = 1
    /\ Len(IssuesOf(2)) = 1

\* C7: when a block has a tags object and two or more required names are
\* missing, the message lists them in the order of the configured tags list.
C7_MessageInConfigOrder ==
    (BlockDone /\ HasObject /\ Cardinality(missing) >= 2)
      => /\ Len(IssuesOf(nres)) = 1
         /\ IssuesOf(nres)[1].message
              = IssueMessage(Join(InConfigOrder(config.Tags, missing), ", "))

\* C8: a required name that is the key of a nested object but of no leaf is
\* in the final missing set.
C8_GroupingKeyStillMissing ==
    ResolveDone
      => \A n \in Required :
            (n \in GroupingKeys(cur.tree) /\ n \notin LeafKeys(cur.tree)) => n \in missing

\* What evaluateMissingTags leaves in missing, told from the tags object
\* alone: the required names that are no leaf key and that are not a key of
\* some object that has a leaf.
OrderFreeMissing(tags, t) ==
    {n \in Range(tags) :
        /\ n \notin LeafKeys(t)
        /\ \E p \in Objects(t) :
              /\ n \notin MapKeys(t, p)
              /\ \E i \in Children(t, p) : t[i].kind = "primitive"}

\* C9: the final missing set is a function of the tags list and the tags
\* object alone, hence the same under every iteration order of every range.
C9_OrderIndependent ==
    ResolveDone => missing = OrderFreeMissing(config.Tags, cur.tree)

\* C9 witness: the resolution of an object with three entries on two levels
\* under two required names has ended with exactly one of them missing.
C9_Witness ==
    /\ ResolveDone
    /\ Len(cur.tree) = 3
    /\ \E i \in 1..3 : cur.tree[i].parent > 0
    /\ Cardinality(Required) = 2
    /\ Cardinality(missing) = 1

\* C10: during one resolution missing and tagsAlreadyIncluded are disjoint
\* and hold required names only, tagsAlreadyIncluded never loses a name, and
\* a name in tagsAlreadyIncluded is not in missing after the next step.
C10_MapsInvariant ==
    /\ [](/\ missing \cap tagsAlreadyIncluded = {}
          /\ missing \subseteq Required
          /\ tagsAlreadyIncluded \subseteq Required)
    /\ [][/\ tagsAlreadyIncluded \subseteq tagsAlreadyIncluded'
          /\ tagsAlreadyIncluded \cap missing' = {}]_vars

\* C10 witness: in the middle of a resolution one required name is recorded
\* as included while the other is in missing.
C10_Witness ==
    /\ pc = "eval" /\ stack # <<>>
    /\ Len(stack) = 2
    /\ tagsAlreadyIncluded # {}
    /\ missing # {}

====
